---- MODULE Spec2Model ----
(***************************************************************************)
(* The chat server of src/src/index.ts: the process-wide agent binding,   *)
(* session config and transcript (messageHistory), the POST /api/chat     *)
(* handler cut at its suspension points (the awaits of lines 95, 104 and  *)
(* 110), and GET /api/health.  The reasoning engine is the environment:   *)
(* it resolves or rejects the promises the handler awaits.                *)
(***************************************************************************)
EXTENDS Integers, Sequences, FiniteSets, TLC

\* ---------------------------------------------------------------- bounds
\* Number of chat requests the callers submit.
MaxReq == 2
\* Number of chunks the engine emits in the process lifetime.
MaxSteps == 2

Req == 1..MaxReq

\* ------------------------------------------------------------ data values
\* `let agent: any` before the first assignment.
NoAgent == 0

\* `let config: any` before the first assignment.
NoConfig == [defined |-> FALSE, thread_id |-> ""]

\* A message content is a string or an array of content parts; for an array,
\* text is the text of its single part.
StringContent(s) == [type |-> "string", text |-> s]

ArrayContent(s) == [type |-> "array", text |-> s]

\* JavaScript String(x): a string is itself, an array of one object is the
\* object's default rendering.
String(c) == IF c.type = "string" THEN c.text ELSE "[object Object]"

\* Request bodies: the message field absent, empty, or a text.
Bodies ==
  { [has |-> FALSE, message |-> ""],
    [has |-> TRUE, message |-> ""],
    [has |-> TRUE, message |-> "Hello"] }

NoBody == [has |-> FALSE, message |-> ""]

\* Contents the engine puts in an agent step and in a tool step.
AgentContents == {StringContent("A"), ArrayContent("B")}

ToolContents == {StringContent("T")}

\* The chunks of the engine's stream: {agent: {messages: [m]}} or
\* {tools: {messages: [m]}}.
Chunks ==
  [key : {"agent"}, content : AgentContents] \cup
  [key : {"tools"}, content : ToolContents]

\* new HumanMessage(message); turn is the identity of the object (the request
\* that created it).
HumanMessage(text, r) ==
  [role |-> "user", content |-> StringContent(text), turn |-> r]

\* chunk.agent.messages[0], an object the engine created for request r.
AgentMessage(chunk, r) ==
  [role |-> "agent", content |-> chunk.content, turn |-> r]

NoResponse == [status |-> 0, error |-> "", response |-> ""]

NoPromise == [state |-> "none", agent |-> NoAgent, config |-> NoConfig]

NoCall == [called |-> FALSE, messages |-> << >>, config |-> NoConfig]

NoHealth == [status |-> 0, body |-> ""]

\* ------------------------------------------------------------------ state
VARIABLES
  agent,          \* the engine binding (0: undefined, n: the n-th one created)
  config,         \* the session config
  messageHistory, \* the transcript
  created,        \* number of agents initializeAgent has returned
  pc,             \* per request: where its handler is suspended
  body,           \* per request: req.body
  initialized,    \* per request: the promise of initializeAgent()
  invoked,        \* per request: the arguments of its agent.stream call
  stream,         \* per request: its stream (none, pending, open, ended, failed)
  emitted,        \* per request: the chunks its stream has yielded
  responses,      \* per request: the local array `responses`
  res,            \* per request: the response sent
  health          \* the response to the last GET /api/health

vars ==
  << agent, config, messageHistory, created, pc, body, initialized, invoked,
     stream, emitted, responses, res, health >>

shared == << agent, config, messageHistory, created >>

Init ==
  /\ agent = NoAgent
  /\ config = NoConfig
  /\ messageHistory = << >>
  /\ created = 0
  /\ pc = [r \in Req |-> "idle"]
  /\ body = [r \in Req |-> NoBody]
  /\ initialized = [r \in Req |-> NoPromise]
  /\ invoked = [r \in Req |-> NoCall]
  /\ stream = [r \in Req |-> "none"]
  /\ emitted = [r \in Req |-> << >>]
  /\ responses = [r \in Req |-> << >>]
  /\ res = [r \in Req |-> NoResponse]
  /\ health = NoHealth

\* ---------------------------------------------------------------- helpers
\* Faulty variant of Falsy: if (message === undefined).
FalsyUndefinedOnly(b) == ~b.has

\* if (!message): absent (undefined) and the empty string are falsy.
Falsy(b) == ~b.has \/ b.message = ""

\* Faulty variant of Push: messageHistory.unshift(m).
Unshift(history, m) == << m >> \o history

\* messageHistory.push(m)
Push(history, m) == Append(history, m)

\* Faulty variant of Join: responses.join(), whose default separator is a comma.
RECURSIVE JoinDefault(_)
JoinDefault(strings) ==
  IF strings = << >> THEN ""
  ELSE IF Len(strings) = 1 THEN Head(strings)
  ELSE Head(strings) \o "," \o JoinDefault(Tail(strings))

\* responses.join('')
RECURSIVE Join(_)
Join(strings) ==
  IF strings = << >> THEN "" ELSE Head(strings) \o Join(Tail(strings))

\* Faulty variant of NewConfig: a thread id of its own for every agent created.
NewConfigPerAgent(n) ==
  [defined |-> TRUE,
   thread_id |-> IF n = 1 THEN "Solana Agent Kit!" ELSE "Solana Agent Kit! +"]

\* The config initializeAgent returns with its n-th agent.
NewConfig(n) == [defined |-> TRUE, thread_id |-> "Solana Agent Kit!"]

\* Faulty variant of HistoryAfterChunk: the message of a tools chunk is pushed too.
HistoryAfterAnyChunk(history, chunk, r) ==
  Append(history, [role |-> IF chunk.key = "agent" THEN "agent" ELSE "tool",
                   content |-> chunk.content, turn |-> r])

\* Faulty variant of HistoryAfterChunk: the agent message is pushed on every
\* branch of the loop body, so an agent chunk's message is pushed twice.
HistoryAfterChunkTwice(history, chunk, r) ==
  IF chunk.key = "agent"
    THEN Push(Push(history, AgentMessage(chunk, r)), AgentMessage(chunk, r))
    ELSE history

\* The body of the for-await loop on the transcript: an agent chunk's message
\* is pushed, a tools chunk is only logged.
HistoryAfterChunk(history, chunk, r) ==
  IF chunk.key = "agent" THEN Push(history, AgentMessage(chunk, r))
  ELSE history

\* Faulty variant of ResponsesAfterChunk: the content of a tools chunk is
\* collected too.
ResponsesAfterAnyChunk(resp, chunk) == Append(resp, String(chunk.content))

\* The body of the for-await loop on the local array `responses`.
ResponsesAfterChunk(resp, chunk) ==
  IF chunk.key = "agent" THEN Append(resp, String(chunk.content))
  ELSE resp

RECURSIVE TotalEmitted(_)
TotalEmitted(n) == IF n = 0 THEN 0 ELSE Len(emitted[n]) + TotalEmitted(n - 1)

\* Faulty variant of Arrives: a request is taken up only when no turn is in
\* flight.
ArrivesWhenQuiet(r) ==
  /\ pc[r] = "idle"
  /\ \A q \in Req : q < r => pc[q] # "idle"
  /\ \A q \in Req : pc[q] \in {"idle", "done"}

\* Requests are numbered in the order they arrive.
Arrives(r) == pc[r] = "idle" /\ \A q \in Req : q < r => pc[q] # "idle"

InFlight(r) == pc[r] \in {"init", "stream", "loop"}

\* ---------------------------------------------------------------- actions
\* res.status(400).json({error: 'Message is required'})
BadRequest == [status |-> 400, error |-> "Message is required", response |-> ""]

\* The catch block of the handler.
ServerError ==
  [status |-> 500, error |-> "Internal server error", response |-> ""]

\* Faulty variant of StartTurn: agent.stream is handed the new message alone,
\* not the transcript.
StartTurnNewMessageOnly(r, text) ==
  /\ messageHistory' = Push(messageHistory, HumanMessage(text, r))
  /\ invoked' = [invoked EXCEPT ![r] =
       [called |-> TRUE, messages |-> << HumanMessage(text, r) >>,
        config |-> config']]
  /\ stream' = [stream EXCEPT ![r] = "pending"]
  /\ pc' = [pc EXCEPT ![r] = "stream"]

\* Faulty variant of StartTurn: agent.stream is called before the user message is
\* pushed.
StartTurnStreamFirst(r, text) ==
  /\ invoked' = [invoked EXCEPT ![r] =
       [called |-> TRUE, messages |-> messageHistory, config |-> config']]
  /\ messageHistory' = Push(messageHistory, HumanMessage(text, r))
  /\ stream' = [stream EXCEPT ![r] = "pending"]
  /\ pc' = [pc EXCEPT ![r] = "stream"]

\* Lines 101-107: push the user message, then call agent.stream with the
\* transcript and the config; the handler suspends on the returned promise.
StartTurn(r, text) ==
  /\ messageHistory' = Push(messageHistory, HumanMessage(text, r))
  /\ invoked' = [invoked EXCEPT ![r] =
       [called |-> TRUE, messages |-> messageHistory', config |-> config']]
  /\ stream' = [stream EXCEPT ![r] = "pending"]
  /\ pc' = [pc EXCEPT ![r] = "stream"]

\* A request arrives with a falsy message: 400, nothing else.
ReceiveInvalid(r, b) ==
  /\ Arrives(r)
  /\ Falsy(b)
  /\ body' = [body EXCEPT ![r] = b]
  /\ res' = [res EXCEPT ![r] = BadRequest]
  /\ pc' = [pc EXCEPT ![r] = "done"]
  /\ UNCHANGED << shared, initialized, invoked, stream, emitted, responses,
                  health >>

\* Faulty variant of ReceiveInit: the user message is pushed before
\* initializeAgent() is called.
ReceiveInitPushFirst(r, b) ==
  /\ Arrives(r)
  /\ ~Falsy(b)
  /\ agent = NoAgent
  /\ body' = [body EXCEPT ![r] = b]
  /\ messageHistory' = Push(messageHistory, HumanMessage(b.message, r))
  /\ \/ /\ created' = created + 1
        /\ initialized' = [initialized EXCEPT ![r] =
             [state |-> "fulfilled", agent |-> created + 1,
              config |-> NewConfig(created + 1)]]
     \/ /\ created' = created
        /\ initialized' = [initialized EXCEPT ![r] =
             [state |-> "rejected", agent |-> NoAgent, config |-> NoConfig]]
  /\ pc' = [pc EXCEPT ![r] = "init"]
  /\ UNCHANGED << agent, config, invoked, stream, emitted, responses, res,
                  health >>

\* A request arrives while there is no agent: initializeAgent() runs (its body
\* has no await, so it has returned or thrown when the handler suspends on
\* its promise).
ReceiveInit(r, b) ==
  /\ Arrives(r)
  /\ ~Falsy(b)
  /\ agent = NoAgent
  /\ body' = [body EXCEPT ![r] = b]
  /\ \/ /\ created' = created + 1
        /\ initialized' = [initialized EXCEPT ![r] =
             [state |-> "fulfilled", agent |-> created + 1,
              config |-> NewConfig(created + 1)]]
     \/ /\ created' = created
        /\ initialized' = [initialized EXCEPT ![r] =
             [state |-> "rejected", agent |-> NoAgent, config |-> NoConfig]]
  /\ pc' = [pc EXCEPT ![r] = "init"]
  /\ UNCHANGED << agent, config, messageHistory, invoked, stream, emitted,
                  responses, res, health >>

\* A request arrives while the agent is bound: the turn starts at once.
ReceiveChat(r, b) ==
  /\ Arrives(r)
  /\ ~Falsy(b)
  /\ agent # NoAgent
  /\ body' = [body EXCEPT ![r] = b]
  /\ UNCHANGED << agent, config, created, initialized, emitted, responses,
                  res, health >>
  /\ StartTurn(r, b.message)

\* await initializeAgent() resumes with its value: bind agent and config,
\* then start the turn.
InitFulfilled(r) ==
  /\ pc[r] = "init"
  /\ initialized[r].state = "fulfilled"
  /\ agent' = initialized[r].agent
  /\ config' = initialized[r].config
  /\ StartTurn(r, body[r].message)
  /\ UNCHANGED << created, body, initialized, emitted, responses, res, health >>

\* Faulty variant of InitRejected: the catch block calls initializeAgent once
\* more instead of answering.
InitRejectedRetried(r) ==
  /\ pc[r] = "init"
  /\ initialized[r].state = "rejected"
  /\ created' = created + 1
  /\ initialized' = [initialized EXCEPT ![r] =
       [state |-> "fulfilled", agent |-> created + 1,
        config |-> NewConfig(created + 1)]]
  /\ UNCHANGED << agent, config, messageHistory, pc, body, invoked, stream,
                  emitted, responses, res, health >>

\* Faulty variant of InitRejected: the failed initialization leaves a binding behind.
InitRejectedBound(r) ==
  /\ pc[r] = "init"
  /\ initialized[r].state = "rejected"
  /\ agent' = created + 1
  /\ created' = created + 1
  /\ res' = [res EXCEPT ![r] = ServerError]
  /\ pc' = [pc EXCEPT ![r] = "done"]
  /\ UNCHANGED << config, messageHistory, body, initialized, invoked, stream,
                  emitted, responses, health >>

\* await initializeAgent() resumes with the error: the catch block answers.
InitRejected(r) ==
  /\ pc[r] = "init"
  /\ initialized[r].state = "rejected"
  /\ res' = [res EXCEPT ![r] = ServerError]
  /\ pc' = [pc EXCEPT ![r] = "done"]
  /\ UNCHANGED << shared, body, initialized, invoked, stream, emitted,
                  responses, health >>

\* await agent.stream(...) resumes with the stream: `responses` is created and
\* the loop suspends on the first chunk.
StreamResolved(r) ==
  /\ pc[r] = "stream"
  /\ stream' = [stream EXCEPT ![r] = "open"]
  /\ responses' = [responses EXCEPT ![r] = << >>]
  /\ pc' = [pc EXCEPT ![r] = "loop"]
  /\ UNCHANGED << shared, body, initialized, invoked, emitted, res, health >>

\* Faulty variant of StreamRejected: the catch block answers with the error's
\* own message.
StreamRejectedDetailed(r) ==
  /\ pc[r] = "stream"
  /\ stream' = [stream EXCEPT ![r] = "failed"]
  /\ res' = [res EXCEPT ![r] =
       [status |-> 500, error |-> "agent.stream failed", response |-> ""]]
  /\ pc' = [pc EXCEPT ![r] = "done"]
  /\ UNCHANGED << shared, body, initialized, invoked, emitted, responses,
                  health >>

\* await agent.stream(...) resumes with an error.
StreamRejected(r) ==
  /\ pc[r] = "stream"
  /\ stream' = [stream EXCEPT ![r] = "failed"]
  /\ res' = [res EXCEPT ![r] = ServerError]
  /\ pc' = [pc EXCEPT ![r] = "done"]
  /\ UNCHANGED << shared, body, initialized, invoked, emitted, responses,
                  health >>

\* Faulty variant of StreamChunk: `responses` is one array of the module, which
\* every handler appends to.
StreamChunkSharedResponses(r, chunk) ==
  /\ pc[r] = "loop"
  /\ TotalEmitted(MaxReq) < MaxSteps
  /\ emitted' = [emitted EXCEPT ![r] = Append(@, chunk)]
  /\ messageHistory' = HistoryAfterChunk(messageHistory, chunk, r)
  /\ responses' = [q \in Req |-> ResponsesAfterChunk(responses[q], chunk)]
  /\ UNCHANGED << agent, config, created, pc, body, initialized, invoked,
                  stream, res, health >>

\* Faulty variant of StreamChunk: the loop stops after its first chunk and the
\* turn is answered with what it has.
StreamChunkCapped(r, chunk) ==
  /\ pc[r] = "loop"
  /\ TotalEmitted(MaxReq) < MaxSteps
  /\ emitted' = [emitted EXCEPT ![r] = Append(@, chunk)]
  /\ messageHistory' = HistoryAfterChunk(messageHistory, chunk, r)
  /\ responses' = [responses EXCEPT ![r] = ResponsesAfterChunk(@, chunk)]
  /\ res' = [res EXCEPT ![r] =
       [status |-> 200, error |-> "", response |-> Join(responses'[r])]]
  /\ pc' = [pc EXCEPT ![r] = "done"]
  /\ UNCHANGED << agent, config, created, body, initialized, invoked, stream,
                  health >>

\* The stream yields a chunk and the loop body runs on it.
StreamChunk(r, chunk) ==
  /\ pc[r] = "loop"
  /\ TotalEmitted(MaxReq) < MaxSteps
  /\ emitted' = [emitted EXCEPT ![r] = Append(@, chunk)]
  /\ messageHistory' = HistoryAfterChunk(messageHistory, chunk, r)
  /\ responses' = [responses EXCEPT ![r] = ResponsesAfterChunk(@, chunk)]
  /\ UNCHANGED << agent, config, created, pc, body, initialized, invoked,
                  stream, res, health >>

\* The stream is exhausted: res.json({response: responses.join('')}).
StreamEnds(r) ==
  /\ pc[r] = "loop"
  /\ stream' = [stream EXCEPT ![r] = "ended"]
  /\ res' = [res EXCEPT ![r] =
       [status |-> 200, error |-> "", response |-> Join(responses[r])]]
  /\ pc' = [pc EXCEPT ![r] = "done"]
  /\ UNCHANGED << shared, body, initialized, invoked, emitted, responses,
                  health >>

\* Faulty variant of StreamThrows: the catch block takes the turn's messages back out
\* of the transcript.
StreamThrowsRollback(r) ==
  /\ pc[r] = "loop"
  /\ stream' = [stream EXCEPT ![r] = "failed"]
  /\ messageHistory' = SelectSeq(messageHistory, LAMBDA m : m.turn # r)
  /\ res' = [res EXCEPT ![r] = ServerError]
  /\ pc' = [pc EXCEPT ![r] = "done"]
  /\ UNCHANGED << agent, config, created, body, initialized, invoked, emitted,
                  responses, health >>

\* The stream throws instead of yielding: the catch block answers.
StreamThrows(r) ==
  /\ pc[r] = "loop"
  /\ stream' = [stream EXCEPT ![r] = "failed"]
  /\ res' = [res EXCEPT ![r] = ServerError]
  /\ pc' = [pc EXCEPT ![r] = "done"]
  /\ UNCHANGED << shared, body, initialized, invoked, emitted, responses,
                  health >>

\* Faulty variant of HealthResponse: the health check depends on the agent binding.
HealthResponseNeedsAgent ==
  IF agent = NoAgent THEN [status |-> 503, body |-> "unavailable"]
  ELSE [status |-> 200, body |-> "ok"]

\* res.status(200).json({status: 'ok'})
HealthResponse == [status |-> 200, body |-> "ok"]

\* GET /api/health
Health ==
  /\ health' = HealthResponse
  /\ UNCHANGED << shared, pc, body, initialized, invoked, stream, emitted,
                  responses, res >>

Next ==
  \/ \E r \in Req, b \in Bodies : ReceiveInvalid(r, b)
  \/ \E r \in Req, b \in Bodies : ReceiveInit(r, b)
  \/ \E r \in Req, b \in Bodies : ReceiveChat(r, b)
  \/ \E r \in Req : InitFulfilled(r)
  \/ \E r \in Req : InitRejected(r)
  \/ \E r \in Req : StreamResolved(r)
  \/ \E r \in Req : StreamRejected(r)
  \/ \E r \in Req, chunk \in Chunks : StreamChunk(r, chunk)
  \/ \E r \in Req : StreamEnds(r)
  \/ \E r \in Req : StreamThrows(r)
  \/ Health

Spec == Init /\ [][Next]_vars

\* The callers submit one request at a time: a request arrives only when no
\* handler is suspended.
Quiet == \A q \in Req : ~InFlight(q)

NextSeq ==
  \/ \E r \in Req, b \in Bodies : Quiet /\ ReceiveInvalid(r, b)
  \/ \E r \in Req, b \in Bodies : Quiet /\ ReceiveInit(r, b)
  \/ \E r \in Req, b \in Bodies : Quiet /\ ReceiveChat(r, b)
  \/ \E r \in Req : InitFulfilled(r)
  \/ \E r \in Req : InitRejected(r)
  \/ \E r \in Req : StreamResolved(r)
  \/ \E r \in Req : StreamRejected(r)
  \/ \E r \in Req, chunk \in Chunks : StreamChunk(r, chunk)
  \/ \E r \in Req : StreamEnds(r)
  \/ \E r \in Req : StreamThrows(r)
  \/ Health

SpecSeq == Init /\ [][NextSeq]_vars

\* Requests one at a time, with the event loop's guarantee: it runs the
\* continuation of a settled promise, so a handler suspended on
\* initializeAgent() resumes. When the engine settles its promises is up to
\* the engine.
SpecFair ==
  /\ Init
  /\ [][NextSeq]_vars
  /\ \A r \in Req : WF_vars(InitFulfilled(r) \/ InitRejected(r))

\* ------------------------------------------------------- claim vocabulary
IsPrefix(s, t) == Len(s) <= Len(t) /\ SubSeq(t, 1, Len(s)) = s

\* The messages of the transcript that request r's handler appended.
Own(r) == SelectSeq(messageHistory, LAMBDA m : m.turn = r)

\* The agent-step chunks among the chunks a stream yielded, in order.
AgentSteps(chunks) == SelectSeq(chunks, LAMBDA c : c.key = "agent")

\* The user message of request r followed by one message per agent step its
\* stream yielded.
TurnMessages(r) ==
  << HumanMessage(body[r].message, r) >> \o
  [i \in 1..Len(AgentSteps(emitted[r])) |->
     AgentMessage(AgentSteps(emitted[r])[i], r)]

TypeOK ==
  /\ agent \in 0..MaxReq
  /\ created \in 0..MaxReq
  /\ pc \in [Req -> {"idle", "init", "stream", "loop", "done"}]
  /\ body \in [Req -> Bodies]
  /\ stream \in [Req -> {"none", "pending", "open", "ended", "failed"}]
  /\ \A r \in Req : res[r].status \in {0, 200, 400, 500}
  /\ \A r \in Req : (pc[r] = "done") = (res[r].status # 0)
  /\ \A r \in Req : Len(emitted[r]) <= MaxSteps

\* ----------------------------------------------------------------- claims
\* C1: the transcript is append-only: in every step, whatever the interleaving
\* of chat requests and whether or not a request fails, the transcript before
\* the step is a prefix of the transcript after it.
TranscriptAppendOnly == [][IsPrefix(messageHistory, messageHistory')]_vars

\* C1 witness: two requests have appended to the transcript and one of them
\* has failed after appending.
TranscriptGrewAcrossFailure ==
  /\ Len(messageHistory) >= 3
  /\ \E r, q \in Req :
       /\ r # q
       /\ Own(r) # << >>
       /\ Own(q) # << >>
       /\ res[r] = ServerError

\* The transcript N turns processed one after another leave behind.
RECURSIVE TurnsUpTo(_)
TurnsUpTo(n) ==
  IF n = 0 THEN << >>
  ELSE TurnsUpTo(n - 1) \o (IF pc[n] = "idle" THEN << >> ELSE TurnMessages(n))

\* C2: when every turn submitted so far, one after another, has succeeded, the
\* transcript is exactly, turn by turn in submission order, the turn's user
\* message followed by its agent-step messages in emission order; a turn of
\* one agent step and no tool step has put exactly 2 messages in it.
TranscriptIsTurnsInOrder ==
  (\A r \in Req : pc[r] # "idle" => res[r].status = 200) =>
    /\ messageHistory = TurnsUpTo(MaxReq)
    /\ \A r \in Req :
         (pc[r] # "idle" /\ Len(emitted[r]) = 1 /\ emitted[r][1].key = "agent")
           => Len(Own(r)) = 2

\* C2 witness: two successful turns of one agent step each have left four
\* messages.
TwoTurnsSucceeded ==
  /\ res[1].status = 200
  /\ res[2].status = 200
  /\ Len(emitted[1]) = 1 /\ emitted[1][1].key = "agent"
  /\ Len(emitted[2]) = 1 /\ emitted[2][1].key = "agent"
  /\ Len(messageHistory) = 4

\* The contents of the agent steps among chunks, as strings, one after the
\* other.
RECURSIVE ConcatAgentContents(_)
ConcatAgentContents(chunks) ==
  IF chunks = << >> THEN ""
  ELSE (IF Head(chunks).key = "agent" THEN String(Head(chunks).content) ELSE "")
         \o ConcatAgentContents(Tail(chunks))

AgentChunk(c) == [key |-> "agent", content |-> c]

ToolChunk(c) == [key |-> "tools", content |-> c]

\* C3: the response of a successful turn is the concatenation, without
\* separator, of the contents (as strings) of the agent steps its stream
\* yielded, in the order yielded and without deduplication, tool steps
\* excluded; no agent step gives "".
ResponseIsConcatenation ==
  \A r \in Req :
    res[r].status = 200 =>
      /\ res[r].response = ConcatAgentContents(emitted[r])
      /\ emitted[r] = << AgentChunk(StringContent("A")),
                         AgentChunk(ArrayContent("B")) >>
           => res[r].response = "A[object Object]"
      /\ emitted[r] = << AgentChunk(ArrayContent("B")),
                         AgentChunk(StringContent("A")) >>
           => res[r].response = "[object Object]A"
      /\ emitted[r] = << AgentChunk(StringContent("A")),
                         AgentChunk(StringContent("A")) >>
           => res[r].response = "AA"
      /\ emitted[r] = << ToolChunk(StringContent("T")),
                         AgentChunk(StringContent("A")) >>
           => res[r].response = "A"
      /\ AgentSteps(emitted[r]) = << >> => res[r].response = ""

\* C3 witness: a turn answered with its two agent steps' contents in order.
AnsweredInOrder ==
  \E r \in Req :
    /\ res[r].status = 200
    /\ emitted[r] = << AgentChunk(StringContent("A")),
                       AgentChunk(ArrayContent("B")) >>
    /\ res[r].response = "A[object Object]"

\* C4: initializeAgent completes successfully at most once in the process
\* lifetime, also with several chat requests in flight, and once the engine
\* binding is set no request replaces it.
InitializedOnce ==
  [][created' <= 1 /\ (agent # NoAgent => agent' = agent)]_vars

\* C5: when the engine throws during a turn after k agent steps were
\* processed (k >= 0), the request is answered 500 and the transcript holds,
\* of that turn, its user message followed by exactly those k agent messages.
FailureKeepsPartialTurn ==
  \A r \in Req :
    stream[r] = "failed" =>
      /\ pc[r] = "done"
      /\ res[r] = ServerError
      /\ Own(r) = TurnMessages(r)
      /\ Len(Own(r)) = 1 + Len(AgentSteps(emitted[r]))

\* C5 witness: the engine threw after one agent step of a turn, and the user
\* message and that agent message are in the transcript.
FailedAfterOneAgentStep ==
  \E r \in Req :
    /\ stream[r] = "failed"
    /\ Len(AgentSteps(emitted[r])) = 1
    /\ Len(Own(r)) = 2
    /\ res[r].status = 500

\* C6: a chat request whose message is absent or empty is answered 400
\* "Message is required" in the step that receives it, and that step changes
\* neither the transcript nor the initialization state and calls neither
\* initializeAgent nor the engine.
EmptyMessageIsRejected ==
  [][\A r \in Req :
       (pc[r] = "idle" /\ pc'[r] # "idle"
          /\ (~body'[r].has \/ body'[r].message = ""))
       => /\ res'[r] = [status |-> 400, error |-> "Message is required",
                        response |-> ""]
          /\ pc'[r] = "done"
          /\ messageHistory' = messageHistory
          /\ agent' = agent /\ config' = config /\ created' = created
          /\ initialized'[r].state = "none"
          /\ ~invoked'[r].called
          /\ stream'[r] = "none"]_vars

\* C6 witness: a request with an empty message and one with no message were
\* answered 400 while the agent was unbound and the transcript empty.
EmptyMessagesAnswered400 ==
  \E r, q \in Req :
    /\ body[r] = [has |-> TRUE, message |-> ""]
    /\ body[q] = [has |-> FALSE, message |-> ""]
    /\ pc[q] = "done"
    /\ res[r].status = 400
    /\ res[q].status = 400
    /\ agent = NoAgent
    /\ messageHistory = << >>

\* C7: the step that handles a failed initialization answers that request 500
\* and leaves the agent binding, the config and the transcript as they were
\* (unbound if they were unbound); and a request with a non-empty message that
\* arrives while the agent is unbound calls initializeAgent again.
InitFailureLeavesUnbound ==
  [][\A r \in Req :
       /\ (pc[r] = "init" /\ initialized[r].state = "rejected"
             /\ pc'[r] # "init")
          => /\ res'[r] = ServerError
             /\ pc'[r] = "done"
             /\ agent' = agent /\ config' = config
             /\ messageHistory' = messageHistory
             /\ ~invoked'[r].called
       /\ (pc[r] = "idle" /\ pc'[r] # "idle" /\ agent = NoAgent
             /\ body'[r].has /\ body'[r].message # "")
          => /\ pc'[r] = "init"
             /\ initialized[r].state = "none"
             /\ initialized'[r].state \in {"fulfilled", "rejected"}]_vars

\* C7 witness: a request failed in initialization and was answered 500, the
\* agent is unbound, and the request after it has called initializeAgent.
InitRetriedAfterFailure ==
  \E r, q \in Req :
    /\ r < q
    /\ initialized[r].state = "rejected"
    /\ res[r] = ServerError
    /\ agent = NoAgent
    /\ config = NoConfig
    /\ initialized[q].state = "fulfilled"
    /\ pc[q] = "init"

\* The positions in the transcript of the user messages request r appended.
UserPositions(r) ==
  { i \in DOMAIN messageHistory :
      messageHistory[i].role = "user" /\ messageHistory[i].turn = r }

\* C8 as stated: every chat request with a non-empty message, once handled,
\* has appended exactly one user message carrying its text.
EveryAcceptedRequestAppends ==
  \A r \in Req :
    (pc[r] = "done" /\ body[r].has /\ body[r].message # "")
      => Cardinality(UserPositions(r)) = 1

\* C8 amended: no request appends more than one user message; a request whose
\* initialization has not succeeded has appended nothing; a request for which
\* the engine was invoked has appended exactly one user message, carrying its
\* text, and that message is the last of the transcript handed to the engine
\* and precedes every agent message of the turn.
UserMessageOnceBeforeEngine ==
  \A r \in Req :
    /\ Cardinality(UserPositions(r)) <= 1
    /\ ~invoked[r].called => Own(r) = << >>
    /\ invoked[r].called =>
         /\ body[r].has /\ body[r].message # ""
         /\ \E i \in DOMAIN messageHistory :
              /\ UserPositions(r) = {i}
              /\ messageHistory[i].content = StringContent(body[r].message)
              /\ Len(invoked[r].messages) = i
              /\ invoked[r].messages = SubSeq(messageHistory, 1, i)
              /\ \A j \in DOMAIN messageHistory :
                   (messageHistory[j].turn = r /\ j # i)
                     => (j > i /\ messageHistory[j].role = "agent")

\* C8 witness: the engine was invoked for two requests, each has its user
\* message in the transcript, and an agent message follows.
UserMessagesThenAgentMessage ==
  \E r, q \in Req :
    /\ r # q
    /\ invoked[r].called /\ invoked[q].called
    /\ Cardinality(UserPositions(r)) = 1
    /\ Cardinality(UserPositions(q)) = 1
    /\ Len(Own(r)) = 2

\* C9: every engine invocation is passed a defined session config, and all
\* invocations of the process lifetime are passed the same session identifier.
ConfigReusedByEveryTurn ==
  \A r \in Req :
    invoked[r].called =>
      /\ invoked[r].config.defined
      /\ invoked[r].config = config
      /\ \A q \in Req :
           invoked[q].called =>
             invoked[q].config.thread_id = invoked[r].config.thread_id

\* C9 witness: the engine was invoked for two requests that each ran
\* initializeAgent, and for both with the same thread id.
TwoTurnsOneThread ==
  \E r, q \in Req :
    /\ r # q
    /\ invoked[r].called /\ invoked[q].called
    /\ initialized[r].state = "fulfilled"
    /\ initialized[q].state = "fulfilled"
    /\ invoked[r].config.thread_id = invoked[q].config.thread_id

\* C10: GET /api/health can be answered in every state, its answer is always
\* 200 {status: "ok"}, and answering changes nothing else.
HealthAlwaysOk ==
  /\ [](ENABLED Health)
  /\ [](health \in {NoHealth, [status |-> 200, body |-> "ok"]})
  /\ [][health' # health =>
          /\ health' = [status |-> 200, body |-> "ok"]
          /\ UNCHANGED << agent, config, messageHistory, created, pc, body,
                          initialized, invoked, stream, emitted, responses,
                          res >>]_vars

\* C10 witness: health was answered 200 while one request awaits
\* initialization and another is in its turn's loop.
HealthOkWhileBusy ==
  /\ health = [status |-> 200, body |-> "ok"]
  /\ \E r, q \in Req : pc[r] = "init" /\ pc[q] = "loop"

\* The messages of a sequence, as a set.
Range(seq) == { seq[i] : i \in DOMAIN seq }

\* C11: no guard keeps a turn to itself: while a request is suspended in its
\* turn, the next request's turn can start, and an engine invocation made
\* while another request's turn is unanswered is handed a transcript holding
\* that request's user message.
NoMutualExclusion ==
  /\ [](\A r \in Req :
          (/\ pc[r] = "idle"
           /\ \A q \in Req : q < r => pc[q] # "idle"
           /\ \E q \in Req : pc[q] \in {"stream", "loop"})
          => ENABLED ReceiveChat(r, [has |-> TRUE, message |-> "Hello"]))
  /\ [][\A r, q \in Req :
          (/\ r # q
           /\ ~invoked[r].called
           /\ invoked'[r].called
           /\ pc[q] \in {"stream", "loop"})
          => HumanMessage(body[q].message, q) \in Range(invoked'[r].messages)]_vars

\* C11 witness: the user message of a second request sits between the user
\* message and an agent message of the first, and the engine was invoked for
\* the second with the first's user message while the first is unanswered.
TurnsInterleaved ==
  \E a, b \in Req :
    /\ a # b
    /\ pc[a] = "loop"
    /\ messageHistory =
         << HumanMessage(body[a].message, a), HumanMessage(body[b].message, b),
            AgentMessage(AgentChunk(StringContent("A")), a) >>
    /\ invoked[b].messages =
         << HumanMessage(body[a].message, a), HumanMessage(body[b].message, b) >>

\* C12: for every request and every interleaving, the request's own messages
\* in the transcript are, in this order and each exactly once, its user message
\* and the messages of the agent steps its stream has yielded.
OwnMessagesInEmissionOrder ==
  \A r \in Req :
    /\ invoked[r].called => Own(r) = TurnMessages(r)
    /\ ~invoked[r].called => Own(r) = << >>
    /\ \A i, j \in DOMAIN messageHistory :
         (i < j /\ messageHistory[i].turn = r /\ messageHistory[j].turn = r)
           => messageHistory[j].role = "agent"

\* C12 witness: two turns overlap in the transcript, each with its user
\* message and its one agent message in order.
OverlappingTurnsEachInOrder ==
  \E a, b \in Req :
    /\ a # b
    /\ Len(messageHistory) = 4
    /\ messageHistory[1].turn = a /\ messageHistory[2].turn = b
    /\ messageHistory[3].turn = b /\ messageHistory[4].turn = a
    /\ Own(a) = TurnMessages(a)
    /\ Own(b) = TurnMessages(b)

\* C13: a turn ends when the engine ends it and not before. While the stream
\* of a request is pending or open the request has no response (no step bound,
\* no timeout); 200 is sent only once the stream is exhausted and 500 when it
\* failed; a response once sent is never replaced; and if the engine's stream
\* for a request always ends or throws, every request received is eventually
\* answered.
TurnEndsOnlyWithEngine ==
  /\ [](\A r \in Req :
          /\ stream[r] \in {"pending", "open"}
               => (res[r] = NoResponse /\ pc[r] \in {"stream", "loop"})
          /\ res[r].status = 200 => stream[r] = "ended"
          /\ stream[r] = "ended" => res[r].status = 200
          /\ stream[r] = "failed" => res[r].status = 500)
  /\ [][\A r \in Req : res[r] # NoResponse => res'[r] = res[r]]_vars
  /\ \A r \in Req :
       ((pc[r] \in {"stream", "loop"}) ~> (stream[r] \in {"ended", "failed"}))
         => ((pc[r] # "idle") ~> (res[r] # NoResponse))

\* C13 witness: one request was answered 200 after its stream ended on two
\* chunks, and the next, whose stream is still open, has no response.
AnsweredAfterStreamEnded ==
  \E a, b \in Req :
    /\ stream[a] = "ended" /\ Len(emitted[a]) = 2 /\ res[a].status = 200
    /\ stream[b] = "open" /\ res[b] = NoResponse

\* C14: the step that processes a tool step changes neither the transcript
\* nor the collected responses; the transcript never holds a tool message, and
\* a turn has grown it by 1 plus the number of its agent steps whatever the
\* number of its tool steps; the response holds nothing of a tool step.
ToolStepChangesNothing ==
  /\ [](\A r \in Req :
          /\ invoked[r].called
               => Len(Own(r)) =
                    1 + Len(emitted[r])
                      - Len(SelectSeq(emitted[r], LAMBDA c : c.key = "tools"))
          /\ Len(responses[r]) =
               Len(emitted[r])
                 - Len(SelectSeq(emitted[r], LAMBDA c : c.key = "tools")))
  /\ [](\A i \in DOMAIN messageHistory :
          messageHistory[i].role \in {"user", "agent"})
  /\ [][\A r \in Req :
          (/\ Len(emitted'[r]) = Len(emitted[r]) + 1
           /\ emitted'[r][Len(emitted'[r])].key = "tools")
          => /\ messageHistory' = messageHistory
             /\ responses' = responses
             /\ res' = res]_vars

\* C14 witness: a turn of one tool step and one agent step was answered with
\* the agent step's content and grew the transcript by two messages.
ToolStepLeftNoTrace ==
  \E r \in Req :
    /\ emitted[r] = << ToolChunk(StringContent("T")),
                       AgentChunk(StringContent("A")) >>
    /\ res[r].status = 200
    /\ res[r].response = "A"
    /\ Len(Own(r)) = 2

\* C15: every failure after validation, raised by initialization, by the
\* engine invocation or by a step of the stream, is answered in the step that
\* catches it, and with the same response: status 500, error "Internal server
\* error", nothing else; no other 500 response exists.
FailuresAnsweredAlike ==
  /\ [][\A r \in Req :
          /\ (pc[r] = "init" /\ initialized[r].state = "rejected"
                /\ pc'[r] # pc[r])
             => res'[r] = [status |-> 500, error |-> "Internal server error",
                           response |-> ""]
          /\ (stream[r] \in {"pending", "open"} /\ stream'[r] = "failed")
             => res'[r] = [status |-> 500, error |-> "Internal server error",
                           response |-> ""]]_vars
  /\ [](\A r \in Req :
          res[r].status \notin {0, 200, 400}
            => res[r] = [status |-> 500, error |-> "Internal server error",
                         response |-> ""])

\* C15 witness: one request failed in initialization and another in its
\* stream, and both got the same response.
InitAndStreamFailuresAlike ==
  \E a, b \in Req :
    /\ initialized[a].state = "rejected" /\ pc[a] = "done"
    /\ stream[b] = "failed"
    /\ res[a] = res[b]
    /\ res[a].status = 500

\* C16: nothing is retried: a request calls initializeAgent at most once and
\* only in the step that receives it, invokes the engine at most once, and
\* once answered does nothing more, whether those calls succeed or fail.
NothingRetried ==
  [][/\ \A r \in Req :
          /\ initialized[r].state # "none" => initialized'[r] = initialized[r]
          /\ initialized'[r] # initialized[r] => pc[r] = "idle"
          /\ invoked[r].called => invoked'[r] = invoked[r]
          /\ stream[r] \in {"ended", "failed"} => stream'[r] = stream[r]
          /\ pc[r] = "done"
               => (pc'[r] = "done" /\ res'[r] = res[r]
                     /\ emitted'[r] = emitted[r])
     /\ created' # created
          => (/\ created' = created + 1
              /\ \E r \in Req : pc[r] = "idle" /\ pc'[r] = "init")]_vars

\* C16 witness: a request failed in initialization and another in its engine
\* invocation; both were answered 500, one agent was ever created and the
\* engine was invoked once.
FailedWithoutRetry ==
  \E a, b \in Req :
    /\ initialized[a].state = "rejected" /\ res[a].status = 500
    /\ ~invoked[a].called
    /\ stream[b] = "failed" /\ emitted[b] = << >> /\ res[b].status = 500
    /\ created = 1

\* C17: in the step that invokes the engine for a request, in every
\* interleaving, the transcript handed over is the whole transcript as it is
\* after the step, which is the transcript before the step plus that request's
\* own user message as its last message: nothing runs between the push and
\* the call.
EngineGetsFullTranscript ==
  [][\A r \in Req :
       (~invoked[r].called /\ invoked'[r].called)
       => /\ invoked'[r].messages = messageHistory'
          /\ invoked'[r].messages =
               Append(messageHistory, HumanMessage(body'[r].message, r))
          /\ invoked'[r].messages[Len(invoked'[r].messages)].role = "user"
          /\ invoked'[r].messages[Len(invoked'[r].messages)].turn = r
          /\ invoked'[r].config = config'
          /\ pc'[r] = "stream"]_vars

\* C17 witness: the engine has just been invoked for a request with a
\* transcript of another request's user and agent messages and, last, its own
\* user message.
InvokedWithOthersTurnAndOwnMessage ==
  \E a, b \in Req :
    /\ a # b
    /\ pc[b] = "stream"
    /\ invoked[b].messages = messageHistory
    /\ messageHistory =
         << HumanMessage(body[a].message, a),
            AgentMessage(AgentChunk(StringContent("A")), a),
            HumanMessage(body[b].message, b) >>

\* The strings a handler has collected from the chunks its stream yielded.
Collected(chunks) ==
  [i \in 1..Len(AgentSteps(chunks)) |-> String(AgentSteps(chunks)[i].content)]

\* C18: the turn result of a request is its own: in every interleaving the
\* strings its handler has collected are those of the agent steps of its own
\* stream, a step of another request changes neither them nor its response,
\* and its response is what its own stream alone determines.
ResponseIsolated ==
  /\ [](\A r \in Req :
          /\ pc[r] \in {"loop", "done"} => responses[r] = Collected(emitted[r])
          /\ res[r].status = 200
               => res[r].response = ConcatAgentContents(emitted[r]))
  /\ [][\A r, q \in Req :
          (r # q /\ (pc'[q] # pc[q] \/ emitted'[q] # emitted[q]))
          => /\ responses'[r] = responses[r]
             /\ res'[r] = res[r]
             /\ emitted'[r] = emitted[r]]_vars

\* C18 witness: the messages of two turns alternate in the transcript and each
\* request was answered with the content of its own agent step.
InterleavedTurnsOwnAnswers ==
  \E a, b \in Req :
    /\ a # b
    /\ Len(messageHistory) = 4
    /\ messageHistory[1].turn = a /\ messageHistory[2].turn = b
    /\ messageHistory[3].turn = a /\ messageHistory[4].turn = b
    /\ res[a] = [status |-> 200, error |-> "", response |-> "A"]
    /\ res[b] = [status |-> 200, error |-> "", response |-> "[object Object]"]

\* C19: a request that fails in initialization has put nothing in the
\* transcript, at no time from its arrival to its 500 response, and the step
\* that answers it leaves the transcript as it was; a request that fails after
\* its engine invocation has its user message in the transcript.
InitFailureAppendsNothing ==
  /\ [](\A r \in Req :
          /\ initialized[r].state = "rejected" => Own(r) = << >>
          /\ pc[r] = "init" => Own(r) = << >>
          /\ (res[r].status = 500 /\ ~invoked[r].called)
               => (initialized[r].state = "rejected" /\ Own(r) = << >>)
          /\ (res[r].status = 500 /\ invoked[r].called)
               => (/\ Own(r) # << >>
                   /\ Own(r)[1] = HumanMessage(body[r].message, r)))
  /\ [][\A r \in Req :
          (pc[r] = "init" /\ res'[r].status = 500)
            => messageHistory' = messageHistory]_vars

\* C19 witness: one request failed in initialization and another after its
\* engine invocation; the transcript holds the user message of the second
\* alone.
OnlyInvokedFailureLeftItsMessage ==
  \E a, b \in Req :
    /\ initialized[a].state = "rejected" /\ res[a].status = 500
    /\ invoked[b].called /\ res[b].status = 500
    /\ messageHistory = << HumanMessage(body[b].message, b) >>

====
